---- MODULE Spec2Model ----
(***************************************************************************)
(* University Dashboard (src/app.py): a Streamlit script that is re-run    *)
(* top to bottom for every page run.  The process keeps one memoized       *)
(* Dataset (st.cache_data on load_data); a page run selects a university,  *)
(* filters the Dataset to that Cohort and computes one result per widget.  *)
(*                                                                         *)
(* Numbers are integers.  A mean is the pair <<sum, count>>, a share the   *)
(* pair <<count, total>>, a median length the integer number of tenths of  *)
(* a year it is rounded to.                                                *)
(***************************************************************************)
EXTENDS Integers, Sequences, FiniteSets, TLC

VARIABLES file, cache, reads, edits, pc, uni, t2, out, err

vars == <<file, cache, reads, edits, pc, uni, t2, out, err>>

-----------------------------------------------------------------------------
(* Bounds of the model *)

MaxRows == 3        \* rows of a Dataset in the degree and the university families
MaxScoreRows == 3   \* rows of a Dataset in the satisfaction family
MaxRQRows == 2      \* rows of a Dataset in the research-quality family
MaxLenRows == 2     \* rows of a Dataset in the course-length family
MaxExamRows == 2    \* rows of a Dataset in the exams family
MaxMissing == 2     \* columns missing from a Dataset in the column family
MaxEdits == 1       \* changes of the source file during the process lifetime

-----------------------------------------------------------------------------
(* Column names, as the script spells them *)

UniCol == "Official University Name"
ScoreCol == "University score (1-5)"
DegreeCol == "Official Degree Name"
StartCol == "Start date"
GradCol == "Graduation date"
EduCol == "Education year"
ExamsCol == "Which exams you gave"
CoachCol == "Used coaching service"
ModeCol == "Primary transport mode"
DaysCol == "Transport days per week"
CommunityCol == "Big Indian community"
RQCol == "Research quality (1-5)"
RQRankedCol == "Research quality (student ranked)"
WorkedCol == "Worked in research"

AllColumns ==
  {UniCol, ScoreCol, DegreeCol, StartCol, GradCol, EduCol, ExamsCol, CoachCol,
   ModeCol, DaysCol, CommunityCol, RQCol, RQRankedCol, WorkedCol}

DateCols == {StartCol, GradCol}
NumCols == {ScoreCol, EduCol, DaysCol, RQCol, RQRankedCol}

-----------------------------------------------------------------------------
(* Cells.  A text cell is a string, "" when the CSV cell is empty; a       *)
(* numeric cell is a number, NaN when empty, NonNumeric when the text is   *)
(* no number; a date cell of the file is <<dd, mm, yyyy>>, <<>> when       *)
(* empty, and after loading the day number, NaT when empty; the exams      *)
(* cell is the sequence of the pieces of its text, <<>> when empty.        *)

NaN == 0 - 1
NonNumeric == 0 - 2
NaT == 0 - 1

RECURSIVE SumSeq(_)
SumSeq(s) == IF s = <<>> THEN 0 ELSE Head(s) + SumSeq(Tail(s))

RECURSIVE Unique(_)
Unique(s) ==
  IF s = <<>> THEN <<>>
  ELSE LET u == Unique(SubSeq(s, 1, Len(s) - 1))
           x == s[Len(s)]
       IN IF \E i \in 1..Len(u) : u[i] = x THEN u ELSE Append(u, x)

Count(s, x) == Cardinality({i \in 1..Len(s) : s[i] = x})

Range(s) == {s[i] : i \in 1..Len(s)}

-----------------------------------------------------------------------------
(* The source file: the rows of dummy_dataset_university.csv.  A Dataset   *)
(* is [cols |-> the header, rows |-> the rows, each a function of cols].   *)

DegreeNames == <<"Architecture", "Biology", "Chemistry">>
Universities == {"U1", "U2"}

DefaultRow ==
  [c \in AllColumns |->
     CASE c = UniCol -> "U1"
       [] c = ScoreCol -> 4
       [] c = DegreeCol -> "Biology"
       [] c = StartCol -> <<1, 9, 2020>>
       [] c = GradCol -> <<1, 9, 2022>>
       [] c = EduCol -> 2
       [] c = ExamsCol -> <<"GRE", ",", " ", "TOEFL">>
       [] c = CoachCol -> "Yes"
       [] c = ModeCol -> "Bus"
       [] c = DaysCol -> 5
       [] c = CommunityCol -> "Yes"
       [] c = RQCol -> 4
       [] c = RQRankedCol -> 4
       [] c = WorkedCol -> "Yes"]

SecondRow ==
  [DefaultRow EXCEPT ![ScoreCol] = 3, ![DegreeCol] = "Chemistry", ![ModeCol] = "Bike",
                     ![DaysCol] = 3, ![ExamsCol] = <<"GMAT">>, ![CoachCol] = "No",
                     ![WorkedCol] = "No", ![RQRankedCol] = NonNumeric]

Restrict(row, cols) == [c \in cols |-> row[c]]

SeqsUpTo(S, n) == UNION {[1..k -> S] : k \in 1..n}

\* Datasets from which up to MaxMissing expected columns are missing
ColumnFamily ==
  {[cols |-> AllColumns \ M,
    rows |-> <<Restrict(DefaultRow, AllColumns \ M), Restrict(SecondRow, AllColumns \ M)>>] :
     M \in {X \in SUBSET AllColumns : Cardinality(X) <= MaxMissing}}

\* Datasets that differ in one column only
VaryColumn(col, Cells, n) ==
  {[cols |-> AllColumns,
    rows |-> [i \in 1..Len(cs) |-> [DefaultRow EXCEPT ![col] = cs[i]]]] :
     cs \in SeqsUpTo(Cells, n)}

DegreeCells == Range(DegreeNames) \cup {""}
ScoreCells == {NaN, 0, 2, 3, 5}
RQCells == {NaN, NonNumeric, 2, 5}
UniCells == Universities \cup {""}

DegreeFamily == VaryColumn(DegreeCol, DegreeCells, MaxRows)
ScoreFamily == VaryColumn(ScoreCol, ScoreCells, MaxScoreRows)
UniFamily == VaryColumn(UniCol, UniCells, MaxRows)

\* Research quality varies together with the university of the row
ResearchFamily ==
  {[cols |-> AllColumns,
    rows |-> [i \in 1..Len(cs) |->
                [DefaultRow EXCEPT ![RQCol] = cs[i][1], ![UniCol] = cs[i][2]]]] :
     cs \in SeqsUpTo(RQCells \X Universities, MaxRQRows)}

\* Start date, graduation date and education year vary together
LengthCells ==
  {<<<<1, 9, 2020>>, <<15, 7, 2021>>, 1>>,
   <<<<1, 9, 2020>>, <<29, 2, 2024>>, 4>>,
   <<<<1, 9, 2020>>, <<29, 2, 2024>>, NaN>>,
   <<<<1, 9, 2020>>, <<>>, 1>>,
   <<<<>>, <<15, 7, 2021>>, 4>>,
   <<<<1, 9, 2020>>, <<>>, NonNumeric>>,
   <<<<>>, <<>>, NaN>>}

LengthFamily ==
  {[cols |-> AllColumns,
    rows |-> [i \in 1..Len(cs) |->
                [DefaultRow EXCEPT ![StartCol] = cs[i][1], ![GradCol] = cs[i][2],
                                   ![EduCol] = cs[i][3]]]] :
     cs \in SeqsUpTo(LengthCells, MaxLenRows)}

ExamCells ==
  {<<>>, <<"GRE">>, <<"GRE", ",", " ", "TOEFL">>, <<"GMAT", ",", "GRE">>,
   <<" ", "PTE", " ", ",", "IELTS", ",", "IELTS">>, <<"SAT">>, <<"GRE", " ", "TOEFL">>}

ExamFamily == VaryColumn(ExamsCol, ExamCells, MaxExamRows)

SourceFiles ==
  ColumnFamily \cup DegreeFamily \cup ScoreFamily \cup UniFamily \cup ResearchFamily
    \cup LengthFamily \cup ExamFamily

\* A change of the source file: one more survey response is appended
Appended(f) == [f EXCEPT !.rows = Append(f.rows, Restrict(SecondRow, f.cols))]

-----------------------------------------------------------------------------
(* load_data: read the file, parse the date columns, coerce one column *)

IsLeap(y) == (y % 4 = 0 /\ y % 100 # 0) \/ y % 400 = 0

LeapsBefore(y) == ((y - 1) \div 4) - ((y - 1) \div 100) + ((y - 1) \div 400)

DaysBeforeMonth == <<0, 31, 59, 90, 120, 151, 181, 212, 243, 273, 304, 334>>

\* pd.to_datetime(cell, dayfirst=True): the day number of dd/mm/yyyy (days since
\* 01/01/0001), NaT for an empty cell
ToDatetime(cell) ==
  IF cell = <<>> THEN NaT
  ELSE LET d == cell[1]
           m == cell[2]
           y == cell[3]
       IN 365 * (y - 1) + LeapsBefore(y) + DaysBeforeMonth[m] + (IF IsLeap(y) /\ m > 2 THEN 1 ELSE 0) + (d - 1)

\* pd.to_numeric(cell, errors='coerce')
ToNumeric(cell) == IF cell = NonNumeric THEN NaN ELSE cell

\* a column of text whose first non-empty cells all look like dd/mm/yyyy
SniffedAsDate(f, c) == c \in DateCols /\ \E i \in 1..Len(f.rows) : f.rows[i][c] # <<>>

ReadCsv(f) ==
  [cols |-> f.cols,
   rows |-> [i \in 1..Len(f.rows) |->
               [c \in f.cols |->
                  IF c \in DateCols
                  THEN (IF SniffedAsDate(f, c) THEN ToDatetime(f.rows[i][c]) ELSE NaT)
                  ELSE IF c = RQRankedCol THEN ToNumeric(f.rows[i][c])
                  ELSE f.rows[i][c]]]]

NoCache == [cols |-> {}, rows |-> <<>>]

\* the Dataset of this page run: load_data() returns the memoized value
df == cache

\* a column read from an object-dtype column keeps its cells as text
IsObjectDtype(d, c) == \E i \in 1..Len(d.rows) : d.rows[i][c] = NonNumeric

-----------------------------------------------------------------------------
(* The page run: the script from top to bottom, one step per section *)

Sections ==
  <<"satisfaction", "top5", "length", "popularity", "exams", "transport_mode",
    "transport_freq", "community", "research_quality", "worked_in_research">>

Widgets == (Range(Sections) \ {"exams"}) \cup {"gre_gmat", "itp", "coaching"}

\* the section after s, "done" after the last one
After(s) ==
  LET i == CHOOSE k \in 1..Len(Sections) : Sections[k] = s
  IN IF i = Len(Sections) THEN "done" ELSE Sections[i + 1]

Pending == [kind |-> "pending"]
Skipped == [kind |-> "skipped"]

Init ==
  /\ file \in SourceFiles
  /\ cache = NoCache
  /\ reads = 0
  /\ edits = 0
  /\ pc = "load"
  /\ uni = ""
  /\ t2 = FALSE
  /\ out = [w \in Widgets |-> Pending]
  /\ err = ""

\* between page runs, after the first load, somebody replaces the source file
ChangeFile ==
  /\ pc = "load"
  /\ cache # NoCache
  /\ edits < MaxEdits
  /\ file' = Appended(file)
  /\ edits' = edits + 1
  /\ UNCHANGED <<cache, reads, pc, uni, t2, out, err>>

\* df = load_data() under st.cache_data: the body runs on the first call only
LoadData ==
  /\ pc = "load"
  /\ IF cache = NoCache
     THEN cache' = ReadCsv(file) /\ reads' = reads + 1
     ELSE UNCHANGED <<cache, reads>>
  /\ pc' = "select"
  /\ UNCHANGED <<file, edits, uni, t2, out, err>>

Raise(e) == pc' = "raised" /\ err' = e

\* the selectable names: sorted distinct non-empty values of the name column
UniOptions(d) == {d.rows[i][UniCol] : i \in 1..Len(d.rows)} \ {""}

\* uni = st.selectbox(...); data = df[df[name] == uni]
SelectUniversity ==
  /\ pc = "select"
  /\ IF UniCol \notin df.cols
     THEN Raise("KeyError") /\ UNCHANGED uni
     ELSE /\ IF UniOptions(df) = {} THEN uni' = "" ELSE uni' \in UniOptions(df)
          /\ pc' = "satisfaction"
          /\ UNCHANGED err
  /\ UNCHANGED <<file, cache, reads, edits, t2, out>>

\* the Cohort: the rows of the selected university, in row order
data ==
  [cols |-> df.cols,
   rows |-> SelectSeq(df.rows, LAMBDA r : uni # "" /\ r[UniCol] = uni)]

Column(d, c) == [i \in 1..Len(d.rows) |-> d.rows[i][c]]


IsNa(c, cell) ==
  IF c \in NumCols \cup DateCols THEN cell = NaN
  ELSE IF c = ExamsCol THEN cell = <<>>
  ELSE cell = ""

\* data[c].dropna()
DropNa(d, c) == SelectSeq(Column(d, c), LAMBDA x : ~IsNa(c, x))

\* Series.mean(): the sum and the number of the non-absent values; n = 0 is NaN
Mean(xs) == [sum |-> SumSeq(xs), n |-> Len(xs)]

\* round(a / b) for b > 0, halves to the even neighbour
RoundHalfEven(a, b) ==
  LET q == a \div b
      r == a % b
  IN IF 2 * r < b THEN q
     ELSE IF 2 * r > b THEN q + 1
     ELSE IF q % 2 = 0 THEN q ELSE q + 1

\* Series.value_counts(): <<value, count>> by descending count, ties in first-seen order
ValueCounts(xs) ==
  LET u == Unique(xs)
      Before(i, j) == Count(xs, u[i]) > Count(xs, u[j]) \/ (Count(xs, u[i]) = Count(xs, u[j]) /\ i < j)
      Pos(j) == 1 + Cardinality({i \in 1..Len(u) : Before(i, j)})
  IN [k \in 1..Len(u) |->
        LET j == CHOOSE j \in 1..Len(u) : Pos(j) = k IN <<u[j], Count(xs, u[j])>>]

\* value_counts(normalize=True) of the non-absent values: each count is over total
Distribution(xs) == [kind |-> "chart", rows |-> ValueCounts(xs), total |-> Len(xs)]

Step(s) == pc = s /\ pc' = After(s) /\ UNCHANGED <<file, cache, reads, edits, uni, err>>

Fail(s, e) == pc = s /\ Raise(e) /\ UNCHANGED <<file, cache, reads, edits, uni, t2, out>>

-----------------------------------------------------------------------------
(* Overall satisfaction *)

MaxStars == 5

Max(a, b) == IF a > b THEN a ELSE b

Labels(rounded) ==
  CASE rounded = 1 -> "Very dissatisfied"
    [] rounded = 2 -> "Dissatisfied"
    [] rounded = 3 -> "Neutral"
    [] rounded = 4 -> "Satisfied"
    [] rounded = 5 -> "Very satisfied"
    [] OTHER -> ""

Round_truncating(score) == score.sum \div score.n

Round(score) == RoundHalfEven(score.sum, score.n)

render_stars(score) ==
  IF score.n = 0 THEN [kind |-> "no_rating"]
  ELSE LET rounded == Round(score)
       IN [kind |-> "stars", filled |-> Max(rounded, 0), empty |-> Max(MaxStars - rounded, 0),
           label |-> Labels(rounded)]

avg_sat == Mean(DropNa(data, ScoreCol))

OverallSatisfaction ==
  \/ /\ ScoreCol \notin data.cols
     /\ Fail("satisfaction", "KeyError")
  \/ /\ ScoreCol \in data.cols
     /\ Step("satisfaction")
     /\ out' = [out EXCEPT !["satisfaction"] = render_stars(avg_sat)]
     /\ UNCHANGED t2

-----------------------------------------------------------------------------
(* Courses *)

TopN == 5

Head_(s, n) == SubSeq(s, 1, IF Len(s) < n THEN Len(s) ELSE n)

top5 == Head_(ValueCounts(DropNa(data, DegreeCol)), TopN)

Top5Courses ==
  /\ Step("top5")
  /\ out' = [out EXCEPT !["top5"] =
               IF DegreeCol \in data.cols THEN [kind |-> "bar", rows |-> top5]
               ELSE [kind |-> "no_data"]]
  /\ UNCHANGED t2

DaysPerYear == 365

HasBothDates_columns_only(d) == DateCols \subseteq d.cols

HasBothDates(d) ==
  /\ DateCols \subseteq d.cols
  /\ \A i \in 1..Len(d.rows) : d.rows[i][StartCol] # NaT /\ d.rows[i][GradCol] # NaT

\* lengths: the non-absent values vals, each in units of 1/unit year, of a Series of size rows
lengths ==
  IF HasBothDates(data)
  THEN [source |-> "dates", unit |-> DaysPerYear, size |-> Len(data.rows),
        vals |-> [i \in 1..Len(data.rows) |-> data.rows[i][GradCol] - data.rows[i][StartCol]]]
  ELSE IF EduCol \in data.cols
  THEN [source |-> "education_year", unit |-> 1, size |-> Len(data.rows),
        vals |-> SelectSeq([i \in 1..Len(data.rows) |-> ToNumeric(data.rows[i][EduCol])],
                           LAMBDA x : x # NaN)]
  ELSE [source |-> "none", unit |-> 1, size |-> 0, vals |-> <<>>]

\* twice Series.median() of a non-empty sequence
Median2(xs) ==
  LET srt == SortSeq(xs, LAMBDA a, b : a < b)
      n == Len(srt)
  IN IF n % 2 = 1 THEN 2 * srt[(n + 1) \div 2] ELSE srt[n \div 2] + srt[(n \div 2) + 1]

\* round(lengths.median(), 1), in tenths of a year
median_len(l) == RoundHalfEven(5 * Median2(l.vals), l.unit)

MedianLengthResult(l) ==
  IF l.size # 0 /\ l.vals # <<>>
  THEN [kind |-> "metric", tenths |-> median_len(l), source |-> l.source]
  ELSE [kind |-> "no_data"]

MedianCourseLength ==
  /\ Step("length")
  /\ out' = [out EXCEPT !["length"] = MedianLengthResult(lengths)]
  /\ UNCHANGED t2

\* Python's order of the degree names
Rank(name) == CHOOSE i \in 1..Len(DegreeNames) : DegreeNames[i] = name

Mode_first_seen(xs) ==
  LET top == {x \in Range(xs) : \A y \in Range(xs) : Count(xs, y) <= Count(xs, x)}
  IN SelectSeq(Unique(xs), LAMBDA x : x \in top)

\* Series.mode(): the values of the highest count, sorted
Mode(xs) ==
  LET top == {x \in Range(xs) : \A y \in Range(xs) : Count(xs, y) <= Count(xs, x)}
  IN SortSeq(SelectSeq(Unique(xs), LAMBDA x : x \in top), LAMBDA a, b : Rank(a) < Rank(b))

most == Mode(DropNa(data, DegreeCol))

\* (data[degree] == most).mean(): over every row of the Cohort
pop(m) == [count |-> Count(Column(data, DegreeCol), m), total |-> Len(data.rows)]

PopularityDonut ==
  /\ Step("popularity")
  /\ out' = [out EXCEPT !["popularity"] =
               IF DegreeCol \in data.cols /\ most # <<>>
               THEN [kind |-> "donut", most |-> most[1], pct |-> pop(most[1]),
                     others |-> [count |-> pop(most[1]).total - pop(most[1]).count,
                                total |-> pop(most[1]).total]]
               ELSE Skipped]
  /\ UNCHANGED t2

-----------------------------------------------------------------------------
(* Exams *)

\* str.split(','): the pieces between the commas
RECURSIVE Split(_)
Split(s) ==
  IF \A i \in 1..Len(s) : s[i] # "," THEN <<s>>
  ELSE LET k == CHOOSE k \in 1..Len(s) : s[k] = "," /\ \A j \in 1..(k - 1) : s[j] # ","
       IN <<SubSeq(s, 1, k - 1)>> \o Split(SubSeq(s, k + 1, Len(s)))

Strip_nothing(t) == t

\* str.strip(): without the leading and trailing blanks
RECURSIVE Strip(_)
Strip(t) ==
  IF t # <<>> /\ Head(t) = " " THEN Strip(Tail(t))
  ELSE IF t # <<>> /\ t[Len(t)] = " " THEN Strip(SubSeq(t, 1, Len(t) - 1))
  ELSE t

\* data.assign(Exam=...).explode('Exam') with Exam stripped: one entry per piece of
\* the exams cell of row i, and one absent entry for a row whose cell is empty
RECURSIVE Explode(_, _)
Explode(d, i) ==
  IF i > Len(d.rows) THEN <<>>
  ELSE LET cell == d.rows[i][ExamsCol]
           pieces == Split(cell)
           here == IF IsNa(ExamsCol, cell) THEN <<[row |-> i, na |-> TRUE, Exam |-> <<>>]>>
                   ELSE [k \in 1..Len(pieces) |->
                           [row |-> i, na |-> FALSE, Exam |-> Strip(pieces[k])]]
       IN here \o Explode(d, i + 1)

exploded == Explode(data, 1)

GreGmatTokens == {<<"GRE">>, <<"GMAT">>}
ItpTokens == {<<"IELTS">>, <<"TOEFL">>, <<"PTE">>}

IsIn(ex, tokens) == SelectSeq(ex, LAMBDA e : ~e.na /\ e.Exam \in tokens)

Exam(ex) == [k \in 1..Len(ex) |-> ex[k].Exam]

gre_gmat == IsIn(exploded, GreGmatTokens)
itp == IsIn(exploded, ItpTokens)

exam_list == Unique(Exam(SelectSeq(exploded, LAMBDA e : ~e.na)))

df_sel(sel_exam) == SelectSeq(exploded, LAMBDA e : ~e.na /\ e.Exam = sel_exam)

coach_counts(sel_exam) ==
  LET used == [k \in 1..Len(df_sel(sel_exam)) |-> data.rows[df_sel(sel_exam)[k].row][CoachCol]]
  IN Distribution(SelectSeq(used, LAMBDA x : ~IsNa(CoachCol, x)))

HasExams(d) == ExamsCol \in d.cols /\ DropNa(d, ExamsCol) # <<>>

Exams ==
  /\ Step("exams")
  /\ UNCHANGED t2
  /\ \/ /\ ~HasExams(data)
        /\ out' = [out EXCEPT !["gre_gmat"] = Skipped, !["itp"] = Skipped,
                              !["coaching"] = Skipped]
     \/ /\ HasExams(data)
        /\ \E sel_exam \in Range(exam_list) :
             out' = [out EXCEPT
                       !["gre_gmat"] = IF gre_gmat # <<>>
                                       THEN [kind |-> "counts", rows |-> ValueCounts(Exam(gre_gmat))]
                                       ELSE Skipped,
                       !["itp"] = IF itp # <<>> THEN Distribution(Exam(itp)) ELSE Skipped,
                       !["coaching"] = IF CoachCol \in data.cols THEN coach_counts(sel_exam)
                                       ELSE Skipped]

-----------------------------------------------------------------------------
(* Transport, community *)

tm == Distribution(DropNa(data, ModeCol))
tf == Distribution(DropNa(data, DaysCol))
ic == Distribution(DropNa(data, CommunityCol))

\* the mode pie; the two columns t1, t2 are created in this branch only
TransportMode ==
  /\ Step("transport_mode")
  /\ IF ModeCol \in data.cols
     THEN out' = [out EXCEPT !["transport_mode"] = tm] /\ t2' = TRUE
     ELSE out' = [out EXCEPT !["transport_mode"] = Skipped] /\ UNCHANGED t2

\* the frequency bars are drawn inside "with t2"
TransportFrequency ==
  \/ /\ DaysCol \notin data.cols
     /\ Step("transport_freq")
     /\ out' = [out EXCEPT !["transport_freq"] = Skipped]
     /\ UNCHANGED t2
  \/ /\ DaysCol \in data.cols
     /\ ~t2
     /\ Fail("transport_freq", "NameError")
  \/ /\ DaysCol \in data.cols
     /\ t2
     /\ Step("transport_freq")
     /\ out' = [out EXCEPT !["transport_freq"] = tf]
     /\ UNCHANGED t2

CommunityPresence ==
  /\ Step("community")
  /\ out' = [out EXCEPT !["community"] = IF CommunityCol \in data.cols THEN ic ELSE Skipped]
  /\ UNCHANGED t2

-----------------------------------------------------------------------------
(* Research metrics *)

\* the sum of text cells is their concatenation: "2" + "5" is "25"
RECURSIVE Concat(_)
Concat(xs) == IF xs = <<>> THEN 0 ELSE 10 * Concat(SubSeq(xs, 1, Len(xs) - 1)) + xs[Len(xs)]

\* avg_q = data[RQCol].mean().  A column of the file with a cell that is no number
\* is read as text: its mean raises TypeError, or (older pandas, every cell of the
\* Cohort a number) is the concatenation over the count.
ResearchQuality ==
  \/ /\ RQCol \notin data.cols
     /\ Step("research_quality")
     /\ out' = [out EXCEPT !["research_quality"] = Skipped]
     /\ UNCHANGED t2
  \/ /\ RQCol \in data.cols
     /\ ~IsObjectDtype(df, RQCol) \/ DropNa(data, RQCol) = <<>>
     /\ Step("research_quality")
     /\ out' = [out EXCEPT !["research_quality"] =
                  [kind |-> "gauge", value |-> Mean(DropNa(data, RQCol))]]
     /\ UNCHANGED t2
  \/ /\ RQCol \in data.cols
     /\ IsObjectDtype(df, RQCol) /\ DropNa(data, RQCol) # <<>>
     /\ Fail("research_quality", "TypeError")
  \/ /\ RQCol \in data.cols
     /\ IsObjectDtype(df, RQCol) /\ DropNa(data, RQCol) # <<>>
     /\ ~IsObjectDtype(data, RQCol)
     /\ Step("research_quality")
     /\ out' = [out EXCEPT !["research_quality"] =
                  [kind |-> "gauge",
                   value |-> [sum |-> Concat(DropNa(data, RQCol)),
                              n |-> Len(DropNa(data, RQCol))]]]
     /\ UNCHANGED t2

\* data[WorkedCol].map({'Yes': 1, 'No': 0}).mean()
pct_res ==
  LET mapped == [i \in 1..Len(data.rows) |->
                   CASE data.rows[i][WorkedCol] = "Yes" -> 1
                     [] data.rows[i][WorkedCol] = "No" -> 0
                     [] OTHER -> NaN]
  IN Mean(SelectSeq(mapped, LAMBDA x : x # NaN))

WorkedInResearch ==
  /\ Step("worked_in_research")
  /\ out' = [out EXCEPT !["worked_in_research"] =
               IF WorkedCol \in data.cols THEN [kind |-> "share", value |-> pct_res]
               ELSE Skipped]
  /\ UNCHANGED t2

\* the next interaction runs the script again, in a fresh namespace
Rerun ==
  /\ pc \in {"done", "raised"}
  /\ pc' = "load"
  /\ uni' = ""
  /\ t2' = FALSE
  /\ out' = [w \in Widgets |-> Pending]
  /\ err' = ""
  /\ UNCHANGED <<file, cache, reads, edits>>

Next ==
  \/ ChangeFile
  \/ LoadData
  \/ SelectUniversity
  \/ OverallSatisfaction
  \/ Top5Courses
  \/ MedianCourseLength
  \/ PopularityDonut
  \/ Exams
  \/ TransportMode
  \/ TransportFrequency
  \/ CommunityPresence
  \/ ResearchQuality
  \/ WorkedInResearch
  \/ Rerun

Spec == Init /\ [][Next]_vars

-----------------------------------------------------------------------------
(* Properties *)

Ran(w) == out[w] # Pending

Abs(x) == IF x < 0 THEN 0 - x ELSE x

\* C1: with exactly one expected column (other than the identifying university
\* name) missing from the Dataset, no query raises and every query of the page
\* run produces its result.
C1_MissingColumnIsNoData ==
  (cache # NoCache /\ \E c \in AllColumns \ {UniCol} : df.cols = AllColumns \ {c})
    => /\ pc # "raised"
       /\ pc = "done" => \A w \in Widgets : Ran(w)

\* C2: for every presence/absence of the transport-mode and transport-days
\* columns, each distribution is rendered exactly when its column is present,
\* and the transport section raises nothing.
C2_TransportIndependent ==
  /\ ~(pc = "raised" /\ err = "NameError")
  /\ (Ran("transport_mode") /\ pc # "transport_freq") =>
        /\ out["transport_mode"].kind = "chart" <=> ModeCol \in df.cols
        /\ out["transport_freq"].kind = "chart" <=> DaysCol \in df.cols

\* C3: the most-popular share is the number of Cohort records of the most popular
\* course over the number of Cohort records with a non-absent degree name, and
\* the Others share is 1 minus it.
C3_ShareOverNonAbsent ==
  out["popularity"].kind = "donut" =>
    LET named == DropNa(data, DegreeCol)
        r == out["popularity"]
    IN /\ r.pct.count * Len(named) = Count(named, r.most) * r.pct.total
       /\ r.others.count * r.pct.total = (r.pct.total - r.pct.count) * r.others.total

\* the degree names of the highest count in the Cohort
TopNames == 
  LET named == DropNa(data, DegreeCol)
  IN {x \in Range(named) : \A y \in Range(named) : Count(named, y) <= Count(named, x)}

FirstSeen(x) == 
  LET named == DropNa(data, DegreeCol)
  IN CHOOSE i \in 1..Len(named) : named[i] = x /\ \A j \in 1..(i - 1) : named[j] # x

\* C4 as stated: among the degree names tied for the highest count, the one
\* reported is the one met first in Cohort row order.
C4_TieFirstEncountered ==
  out["popularity"].kind = "donut" =>
    /\ out["popularity"].most \in TopNames
    /\ \A y \in TopNames : FirstSeen(out["popularity"].most) <= FirstSeen(y)

\* C4 as amended: among the degree names tied for the highest count, the one
\* reported is the smallest in sort (alphabetical) order.
C4_TieSmallestName ==
  out["popularity"].kind = "donut" =>
    /\ out["popularity"].most \in TopNames
    /\ \A y \in TopNames : Rank(out["popularity"].most) <= Rank(y)

C4_Witness ==
  /\ out["popularity"].kind = "donut"
  /\ \E y \in TopNames : FirstSeen(y) < FirstSeen(out["popularity"].most)

\* C5: once loaded, a load request after the file's content changed returns a
\* Dataset of the new content; while the file is unchanged the file is read once.
C5_NeverStale ==
  /\ pc # "load" => df = ReadCsv(file)
  /\ edits = 0 => reads <= 1

AllDatesPresent ==
  /\ DateCols \subseteq data.cols
  /\ \A i \in 1..Len(data.rows) : data.rows[i][StartCol] # NaT /\ data.rows[i][GradCol] # NaT

\* the one source of lengths the claim allows for the Cohort
ChosenLengths ==
  IF AllDatesPresent
  THEN [unit |-> 365,
        vals |-> [i \in 1..Len(data.rows) |-> data.rows[i][GradCol] - data.rows[i][StartCol]]]
  ELSE IF EduCol \in data.cols
  THEN [unit |-> 1, vals |-> SelectSeq(Column(data, EduCol), LAMBDA x : x \notin {NaN, NonNumeric})]
  ELSE [unit |-> 1, vals |-> <<>>]

SortedCopy(xs) ==
  CHOOSE s \in [1..Len(xs) -> Range(xs)] :
    /\ \A i \in 1..(Len(xs) - 1) : s[i] <= s[i + 1]
    /\ \A x \in Range(xs) : Count(s, x) = Count(xs, x)

TwiceMedian(xs) == SortedCopy(xs)[(Len(xs) + 1) \div 2] + SortedCopy(xs)[(Len(xs) + 2) \div 2]

\* C6: the median course length is taken from one source only: the date
\* differences in days / 365 when every Cohort record has both dates, else the
\* non-absent numeric 'Education year' values; it is the median of that source
\* rounded to one decimal, and 'no data' when the source has no values.
C6_MedianNeverMixes ==
  Ran("length") =>
    LET c == ChosenLengths
        r == out["length"]
    IN IF c.vals = <<>> THEN r.kind = "no_data"
       ELSE /\ r.kind = "metric"
            /\ 2 * Abs(5 * TwiceMedian(c.vals) - r.tenths * c.unit) <= c.unit

C6_Witness ==
  /\ Ran("length")
  /\ out["length"].kind = "metric"
  /\ data.cols = AllColumns
  /\ ~AllDatesPresent
  /\ \E i \in 1..Len(data.rows) : data.rows[i][StartCol] # NaT /\ data.rows[i][GradCol] # NaT
  /\ \E i \in 1..Len(data.rows) : data.rows[i][EduCol] = NonNumeric

StarLabel == <<"Very dissatisfied", "Dissatisfied", "Neutral", "Satisfied", "Very satisfied">>

PresentScores == SelectSeq(Column(data, ScoreCol), LAMBDA x : x # NaN)

\* C7: overall satisfaction is 'No rating available' when the Cohort has no
\* non-absent score; otherwise the mean of the non-absent scores rounds to an
\* integer r in 0..5, the scale has 5 symbols of which r are filled, and the
\* label is the one keyed by r (empty for 0).
C7_StarsFromMean ==
  Ran("satisfaction") =>
    LET xs == PresentScores
        r == out["satisfaction"]
    IN IF xs = <<>> THEN r.kind = "no_rating"
       ELSE /\ r.kind = "stars"
            /\ r.filled \in 0..5
            /\ 2 * Abs(SumSeq(xs) - r.filled * Len(xs)) <= Len(xs)
            /\ r.filled + r.empty = 5
            /\ r.label = IF r.filled = 0 THEN "" ELSE StarLabel[r.filled]

C7_Witness ==
  /\ Ran("satisfaction")
  /\ out["satisfaction"].kind = "stars"
  /\ Len(PresentScores) < Len(data.rows)
  /\ SumSeq(PresentScores) % Len(PresentScores) # 0

\* position p of the exams text s holds exam e as a whole trimmed token
IsToken(s, p, e) ==
  /\ s[p] = e
  /\ \E a \in 0..(p - 1) :
       (a = 0 \/ s[a] = ",") /\ \A j \in (a + 1)..(p - 1) : s[j] = " "
  /\ \E b \in (p + 1)..(Len(s) + 1) :
       (b = Len(s) + 1 \/ s[b] = ",") /\ \A j \in (p + 1)..(b - 1) : s[j] = " "

TokenCount(e) ==
  SumSeq([i \in 1..Len(data.rows) |->
            Cardinality({p \in 1..Len(data.rows[i][ExamsCol]) :
                           IsToken(data.rows[i][ExamsCol], p, e)})])

GroupCounted(r, group) ==
  LET present == {e \in group : TokenCount(e) > 0}
  IN IF present = {} THEN r = Skipped
     ELSE /\ r.kind \in {"counts", "chart"}
          /\ Range(r.rows) = {<<<<e>>, TokenCount(e)>> : e \in present}
          /\ Len(r.rows) = Cardinality(present)

\* C8: every comma-separated, trimmed token of a record's exams field counts
\* once, an absent field counts nothing, the GRE-vs-GMAT result counts only GRE
\* and GMAT, the IELTS/TOEFL/PTE result only those three with shares summing to
\* 1, and a result is empty when no token of its group appears.
C8_ExamExplosion ==
  (Ran("gre_gmat") /\ ExamsCol \in data.cols) =>
    /\ GroupCounted(out["gre_gmat"], {"GRE", "GMAT"})
    /\ GroupCounted(out["itp"], {"IELTS", "TOEFL", "PTE"})
    /\ out["itp"].kind = "chart" =>
         out["itp"].total = SumSeq([k \in 1..Len(out["itp"].rows) |-> out["itp"].rows[k][2]])

C8_Witness ==
  /\ Ran("gre_gmat")
  /\ out["gre_gmat"].kind = "counts"
  /\ out["itp"].kind = "chart"
  /\ \E i \in 1..Len(data.rows) : data.rows[i][ExamsCol] = <<>>
  /\ \E i \in 1..Len(data.rows) : data.rows[i][ExamsCol] = <<"GRE", ",", " ", "TOEFL">>

NumericRQ == SelectSeq(Column(data, RQCol), LAMBDA x : x \notin {NaN, NonNumeric})

\* C9: a research-quality cell that is no number counts as absent: the average
\* is the mean of the remaining numeric values and no error is raised.
C9_CoercedResearchQuality ==
  /\ ~(pc = "raised" /\ err = "TypeError")
  /\ out["research_quality"].kind = "gauge" =>
       out["research_quality"].value = Mean(NumericRQ)

\* C10: with the research-quality column absent or every value of the Cohort
\* absent the result is 'no data', never a not-a-number gauge; otherwise it is
\* the mean of the non-absent values.
C10_NoDataNotNaN ==
  (/\ Ran("research_quality")
   /\ data.rows # <<>>
   /\ RQCol \in df.cols => ~IsObjectDtype(df, RQCol)) =>
    IF RQCol \notin df.cols \/ NumericRQ = <<>>
    THEN out["research_quality"].kind \in {"no_data", "skipped"}
    ELSE /\ out["research_quality"].kind = "gauge"
         /\ out["research_quality"].value = Mean(NumericRQ)

====
